---- MODULE Spec2Model ----
(***************************************************************************)
(* A model of tools/chainsync-loadtest/src/network.rs: the Network         *)
(* multiplexer (fetch_block_headers / fetch_block / fetch_chunk, info,     *)
(* keep_sending, notify) with its statistics (Stats, PeerStatsMap,         *)
(* SendTimes).  The crate::concurrency primitives (Ctx, Once, RateLimiter, *)
(* Scope, WeakMap) are not part of the source tree at hand; they are       *)
(* modelled from their description in spec.md sections 4.1-4.5.            *)
(*                                                                         *)
(* One fetch_X call is one element of Callers.  The Request a call creates *)
(* is named by the caller that created it, so Request ids are caller ids.  *)
(* The keep_sending task a call spawns is indexed by the same caller.      *)
(* Time is counted in rate-limiter periods (1 s / qps_limit).              *)
(***************************************************************************)
EXTENDS Integers, Sequences, FiniteSets, TLC

----------------------------------------------------------------------------
(* Bounds of the model.                                                    *)

MaxMinPeers == 1

MaxQps == 2

MaxSends == 3

MaxRecv == 2

MaxFine == 1

MaxJumps == 1

MaxHeight == 2

MaxBatch == 2

PartsPerChunk == 2

(* request_timeout, in seconds. *)
RequestTimeoutSecs == 10

(* The fetch_X calls, the peers and the content addresses of the model.    *)
Callers == {1, 2}

Peers == {1, 2}

Hashes == {1, 2}

Kinds == {"header", "block", "chunk"}

NoReq == 0

----------------------------------------------------------------------------
(* Payloads and messages.                                                  *)

NoValue == [kind |-> "none"]

(* A BlockHeader, as far as notify reads it: height() and prev_hash().     *)
BlockHeaders == [height : 1..MaxHeight, prev_hash : Hashes]

HeaderBatches == UNION {[1..n -> BlockHeaders] : n \in 0..MaxBatch}

BlockPayload(h) == [kind |-> "block", hash |-> h]

HeadersPayload(b) == [kind |-> "header", headers |-> b]

ChunkPayload(h, parts) == [kind |-> "chunk", chunk_hash |-> h, parts |-> parts]

(* Iterator::min_by_key(|h| h.height()): a left fold that keeps the        *)
(* earlier element unless the later one is strictly smaller.  0 for an     *)
(* empty batch (None).                                                     *)
(* Mutant: max_by_key in place of min_by_key.                              *)
RECURSIVE MaxByHeightFrom(_, _, _)
MaxByHeightFrom(b, best, i) ==
    IF i > Len(b) THEN best
    ELSE IF b[best].height < b[i].height
         THEN MaxByHeightFrom(b, i, i + 1)
         ELSE MaxByHeightFrom(b, best, i + 1)

RECURSIVE MinByHeightFrom(_, _, _)
MinByHeightFrom(b, best, i) ==
    IF i > Len(b) THEN best
    ELSE IF b[best].height > b[i].height
         THEN MinByHeightFrom(b, i, i + 1)
         ELSE MinByHeightFrom(b, best, i + 1)

(* Mutant: headers.first() in place of the least height.                  *)
MinByHeightFirst(b) == IF Len(b) = 0 THEN 0 ELSE 1

MinByHeight(b) == IF Len(b) = 0 THEN 0 ELSE MinByHeightFrom(b, 1, 2)

----------------------------------------------------------------------------
VARIABLES
    cfg,           \* [min_peers, qps_limit]: Network::new arguments
    now,           \* the clock, in rate-limiter periods
    tokens,        \* RateLimiter: tokens in the bucket
    data,          \* NetworkData: [info_, info_futures] and the Mutex's poison flag
    rx,            \* per keep_sending task: the oneshot receiver of its info() call
    weakmap,       \* blocks / block_headers / chunks: key -> live Request or NoReq
    request,       \* per Request: [once, sends, times, strong]
    fetch,         \* per fetch_X call: [pc, kind, key, req, result]
    ctx,           \* [root, caller]: cancellation flags of the Ctx tree
    ks,            \* per keep_sending task: [pc, peers, snap, inflight, deadline, res, sent]
    stats,         \* Stats
    locks,         \* the four Mutexes: [owner, prog, order] (lock-level view)
    obs            \* observers for time windows and history (not program state)

vars == <<cfg, now, tokens, data, rx, weakmap, request, fetch, ctx, ks, stats, locks, obs>>


----------------------------------------------------------------------------
(* Helpers.                                                                *)

Min(a, b) == IF a < b THEN a ELSE b

EmptyMap == [p \in {} |-> 0]

(* All orders of a set: the outcomes of peers.shuffle(&mut thread_rng()).  *)
Shuffles(S) ==
    {s \in [1..Cardinality(S) -> S] : \A i, j \in DOMAIN s : i # j => s[i] # s[j]}

RECURSIVE SumOver(_, _)
SumOver(f, S) ==
    IF S = {} THEN 0
    ELSE LET x == CHOOSE y \in S : TRUE IN f[x] + SumOver(f, S \ {x})

MinOver(f) == CHOOSE m \in {f[p] : p \in DOMAIN f} : \A p \in DOMAIN f : m <= f[p]

Cancelled == [kind |-> "Cancelled"]

(* NetworkInfo, as far as Network reads it.  id stands for the identity of *)
(* the Arc<NetworkInfo> object that notify allocates.                      *)
NetworkInfo(id, S) ==
    [id |-> id, connected_peers |-> S, num_connected_peers |-> Cardinality(S)]

RxNone == [st |-> "none"]

RxEmpty == [st |-> "empty"]

RxClosed == [st |-> "closed"]

RxValue(info) == [st |-> "value", info |-> info]

NoRequest == [type |-> "none"]

(* The duration of request_timeout in clock periods.                       *)
TimeoutTicks == RequestTimeoutSecs * cfg.qps_limit

(* RateLimiter::new(1 s / qps_limit, qps_limit): the burst.                *)
Burst == cfg.qps_limit

TotalSends == SumOver([r \in Callers |-> request[r].send_times.sends], Callers)

----------------------------------------------------------------------------
(* Ctx: cancellation is inherited by child contexts.  The Scope of a       *)
(* fetch_X call cancels its context when the body has returned.            *)

CallerCtxDone(c) == ctx.root \/ ctx.caller[c]

ScopeCtxDone(c) == CallerCtxDone(c) \/ fetch[c].pc = "returned"

----------------------------------------------------------------------------
(* SendTimes and PeerStatsMap.                                             *)

SendTimesDefault == [sends |-> 0, times |-> EmptyMap]

(* Mutant: sends is counted only with the first send to a peer.            *)
registerFirstOnly(st, peer_id, t) ==
    IF peer_id \in DOMAIN st.times THEN st
    ELSE [sends |-> st.sends + 1,
          times |-> [p \in DOMAIN st.times \cup {peer_id} |->
                        IF p = peer_id THEN t ELSE st.times[p]]]

(* Mutant: times.insert(peer, now) in place of entry(peer).or_insert_with. *)
registerOverwrite(st, peer_id, t) ==
    [sends |-> st.sends + 1,
     times |-> [p \in DOMAIN st.times \cup {peer_id} |->
                   IF p = peer_id THEN t ELSE st.times[p]]]

register(st, peer_id, t) ==
    [sends |-> st.sends + 1,
     times |-> IF peer_id \in DOMAIN st.times THEN st.times
               ELSE [p \in DOMAIN st.times \cup {peer_id} |->
                        IF p = peer_id THEN t ELSE st.times[p]]]

get_peers(st) == DOMAIN st.times

HasLatency(st, peer_id) == peer_id \in DOMAIN st.times

latency(st, peer_id, t) == t - st.times[peer_id]

PeerStatsDefault == [requests |-> 0, responses |-> 0, total_latency |-> 0]

RequestStatsDefault == [requests |-> 0, total_sends |-> 0, total_latency |-> 0]

(* Mutant: the peers that were sent to do not get their requests counted. *)
add_response_timeNoRequests(psm, st, peer_id, t) ==
    LET rs == [requests |-> psm.requests.requests + 1,
               total_sends |-> psm.requests.total_sends + st.sends,
               total_latency |->
                   IF DOMAIN st.times = {} THEN psm.requests.total_latency
                   ELSE psm.requests.total_latency + (t - MinOver(st.times))]
        ps2 == IF HasLatency(st, peer_id)
               THEN [psm.peers EXCEPT ![peer_id].responses = @ + 1,
                                      ![peer_id].total_latency = @ + latency(st, peer_id, t)]
               ELSE [psm.peers EXCEPT ![peer_id].responses = @ + 1]
    IN [requests |-> rs, peers |-> ps2]

(* Mutant: a response without a send to the responder is given the        *)
(* latency since the first send of the request.                            *)
add_response_timeOldestSend(psm, st, peer_id, t) ==
    LET rs == [requests |-> psm.requests.requests + 1,
               total_sends |-> psm.requests.total_sends + st.sends,
               total_latency |->
                   IF DOMAIN st.times = {} THEN psm.requests.total_latency
                   ELSE psm.requests.total_latency + (t - MinOver(st.times))]
        ps1 == [p \in Peers |->
                   IF p \in get_peers(st)
                   THEN [psm.peers[p] EXCEPT !.requests = @ + 1]
                   ELSE psm.peers[p]]
        ps2 == IF HasLatency(st, peer_id)
               THEN [ps1 EXCEPT ![peer_id].responses = @ + 1,
                                ![peer_id].total_latency = @ + latency(st, peer_id, t)]
               ELSE [ps1 EXCEPT ![peer_id].responses = @ + 1,
                                ![peer_id].total_latency =
                                    IF DOMAIN st.times = {} THEN @
                                    ELSE @ + (t - MinOver(st.times))]
    IN [requests |-> rs, peers |-> ps2]

add_response_time(psm, st, peer_id, t) ==
    LET rs == [requests |-> psm.requests.requests + 1,
               total_sends |-> psm.requests.total_sends + st.sends,
               total_latency |->
                   IF DOMAIN st.times = {} THEN psm.requests.total_latency
                   ELSE psm.requests.total_latency + (t - MinOver(st.times))]
        ps1 == [p \in Peers |->
                   IF p \in get_peers(st)
                   THEN [psm.peers[p] EXCEPT !.requests = @ + 1]
                   ELSE psm.peers[p]]
        ps2 == IF HasLatency(st, peer_id)
               THEN [ps1 EXCEPT ![peer_id].responses = @ + 1,
                                ![peer_id].total_latency = @ + latency(st, peer_id, t)]
               ELSE [ps1 EXCEPT ![peer_id].responses = @ + 1]
    IN [requests |-> rs, peers |-> ps2]

----------------------------------------------------------------------------
(* Request and Once.                                                       *)

RequestNew == [once |-> NoValue, send_times |-> SendTimesDefault, strong |-> 0]

(* Once::set: only the first call succeeds.                                *)
OnceSetOk(o) == o = NoValue

OnceSet(o, v) == IF OnceSetOk(o) THEN v ELSE o

(* WeakMap::get: the live Request of the key, if any.                      *)
WeakGet(kind, key) == weakmap[kind][key]

(* WeakMap::get_or_insert for caller c: the live Request, or a new one.    *)
GetOrInsert(kind, key, c) ==
    IF WeakGet(kind, key) # NoReq THEN WeakGet(kind, key) ELSE c

----------------------------------------------------------------------------
NoInfo == NetworkInfo(0 - 1, {})

Configs ==
    [min_peers : 0..MaxMinPeers, qps_limit : 1..MaxQps,
     parts_per_chunk : {PartsPerChunk}]

(* The state after Network::new(config, network_adapter, qps_limit).       *)
(***************************************************************************)
(* Lock-level view.  The handlers above are atomic; here the same handlers *)
(* are followed through their Mutex operations only: a thread runs the     *)
(* sequence of lock / unlock / await operations of the function it is in.  *)
(* MutexGuards are dropped at the end of their statement or block, also    *)
(* when the thread unwinds from a panic.  Threads are the keep_sending     *)
(* tasks (one per caller) and the threads that call notify.                *)
(***************************************************************************)
NoThread == 0
Notifiers == {3, 4}
Threads == Callers \cup Notifiers

DataMutex == <<"data", 0>>
RequestsMutex == <<"requests", 0>>
PeersMutex == <<"peers", 0>>
TimesMutex(r) == <<"times", r>>
Mutexes == {DataMutex, RequestsMutex, PeersMutex} \cup {TimesMutex(r) : r \in Callers}

Lock(m) == [op |-> "lock", m |-> m]
Unlock(m) == [op |-> "unlock", m |-> m]
Await == [op |-> "await", m |-> <<"none", 0>>]

(* SendTimes: each method locks times for one statement.                   *)
registerLocks(r) == <<Lock(TimesMutex(r)), Unlock(TimesMutex(r))>>
get_peersLocks(r) == <<Lock(TimesMutex(r)), Unlock(TimesMutex(r))>>
latencyLocks(r) == <<Lock(TimesMutex(r)), Unlock(TimesMutex(r))>>

(* Mutant: one block, the peers lock taken before requests is released.    *)
add_response_timeLocksOneBlock(r) ==
    <<Lock(RequestsMutex), Lock(TimesMutex(r)), Unlock(TimesMutex(r)),
      Lock(PeersMutex)>>
    \o get_peersLocks(r) \o latencyLocks(r)
    \o <<Unlock(PeersMutex), Unlock(RequestsMutex)>>

(* PeerStatsMap::add_response_time: first block under rs, with times       *)
(* locked for the min() statement; second block under ps, calling          *)
(* get_peers and latency.                                                  *)
add_response_timeLocks(r) ==
    <<Lock(RequestsMutex), Lock(TimesMutex(r)), Unlock(TimesMutex(r)),
      Unlock(RequestsMutex), Lock(PeersMutex)>>
    \o get_peersLocks(r) \o latencyLocks(r)
    \o <<Unlock(PeersMutex)>>

(* Mutant: the guard n lives until after the await.                        *)
infoLocksGuardKept == <<Lock(DataMutex), Await, Unlock(DataMutex)>>

(* Network::info: the block with n ends before ctx.wrap(recv).await.       *)
infoLocks == <<Lock(DataMutex), Unlock(DataMutex), Await>>

(* One iteration of `for peer in peers`: allow, register, send.await and   *)
(* (after NoResponse) ctx.wait.                                            *)
peerLocks(c) == <<Await>> \o registerLocks(c) \o <<Await, Await>>

(* Network::notify: NetworkInfo works under n (a panic at the unwrap drops *)
(* n as well); a response that sets the Once calls add_response_time.      *)
notifyNetworkInfoLocks == <<Lock(DataMutex), Unlock(DataMutex)>>
notifyResponseLocks(r) == add_response_timeLocks(r)

Programs(t) ==
    IF t \in Callers
    THEN {infoLocks, peerLocks(t)}
    ELSE {notifyNetworkInfoLocks} \cup {notifyResponseLocks(r) : r \in Callers}

LocksInit ==
    [owner |-> [m \in Mutexes |-> NoThread],
     prog |-> [t \in Threads |-> <<>>],
     order |-> {}]

HeldBy(t) == {m \in Mutexes : locks.owner[m] = t}

(* A thread enters one of its functions.                                   *)
LockStart(t) ==
    /\ locks.prog[t] = <<>>
    /\ \E P \in Programs(t) : locks' = [locks EXCEPT !.prog[t] = P]
    /\ UNCHANGED <<cfg, now, tokens, data, rx, weakmap, request, fetch, ctx, ks, stats, obs>>

(* lock(): blocks while the Mutex has an owner (the owner itself too).     *)
LockAcquire(t) ==
    /\ locks.prog[t] # <<>>
    /\ Head(locks.prog[t]).op = "lock"
    /\ LET m == Head(locks.prog[t]).m IN
         /\ locks.owner[m] = NoThread
         /\ locks' = [locks EXCEPT !.owner[m] = t,
                                   !.prog[t] = Tail(@),
                                   !.order = @ \cup {<<h, m>> : h \in HeldBy(t)}]
    /\ UNCHANGED <<cfg, now, tokens, data, rx, weakmap, request, fetch, ctx, ks, stats, obs>>

(* The guard is dropped.                                                   *)
LockRelease(t) ==
    /\ locks.prog[t] # <<>>
    /\ Head(locks.prog[t]).op = "unlock"
    /\ locks' = [locks EXCEPT !.owner[Head(locks.prog[t]).m] = NoThread,
                              !.prog[t] = Tail(@)]
    /\ UNCHANGED <<cfg, now, tokens, data, rx, weakmap, request, fetch, ctx, ks, stats, obs>>

(* The awaited future completes and the task is polled again.              *)
LockResume(t) ==
    /\ locks.prog[t] # <<>>
    /\ Head(locks.prog[t]).op = "await"
    /\ locks' = [locks EXCEPT !.prog[t] = Tail(@)]
    /\ UNCHANGED <<cfg, now, tokens, data, rx, weakmap, request, fetch, ctx, ks, stats, obs>>

InitCfg(C) ==
    /\ cfg \in C
    /\ now = 0
    /\ tokens = cfg.qps_limit
    /\ data = [info_ |-> NetworkInfo(0, {}), info_futures |-> <<>>, poisoned |-> FALSE]
    /\ rx = [c \in Callers |-> RxNone]
    /\ weakmap = [k \in Kinds |-> [h \in Hashes |-> NoReq]]
    /\ request = [r \in Callers |-> RequestNew]
    /\ fetch = [c \in Callers |->
                   [pc |-> "idle", kind |-> "none", key |-> 0, req |-> NoReq,
                    result |-> NoValue]]
    /\ ctx = [root |-> FALSE, caller |-> [c \in Callers |-> FALSE]]
    /\ ks = [c \in Callers |->
                [pc |-> "idle", peers |-> <<>>, snap |-> NoInfo,
                 inflight |-> NoRequest, deadline |-> 0, res |-> "none", sent |-> 0]]
    /\ stats = [msgs_sent |-> 0, msgs_send_failures |-> 0, msgs_recv |-> 0,
                start |-> [k \in Kinds |-> 0], done |-> [k \in Kinds |-> 0],
                peers |-> [requests |-> RequestStatsDefault,
                           peers |-> [p \in Peers |-> PeerStatsDefault]]]
    /\ locks = LocksInit
    /\ obs = [everPeers |-> FALSE, sets |-> [r \in Callers |-> 0],
              winStart |-> 0 - 1, winSends |-> 0, winBase |-> 0,
              lastSend |-> 0 - 1, dups |-> 0,
              suspicious |-> [p \in Peers |-> 0]]

Init == InitCfg(Configs)

----------------------------------------------------------------------------
(* fetch_block_headers / fetch_block / fetch_chunk.                        *)

(* new_req of the three fetches: the NetworkRequests value sent to a peer. *)
RECURSIVE Iota(_)
Iota(n) == IF n = 0 THEN <<>> ELSE Append(Iota(n - 1), n - 1)

(* Mutant: part_ords is the inclusive range 0..=parts_per_chunk.           *)
new_reqInclusive(kind, key, peer) ==
    CASE kind = "header" ->
           [type |-> "BlockHeadersRequest", hashes |-> <<key>>, peer_id |-> peer]
      [] kind = "block" ->
           [type |-> "BlockRequest", hash |-> key, peer_id |-> peer]
      [] kind = "chunk" ->
           [type |-> "PartialEncodedChunkRequest", target |-> peer,
            chunk_hash |-> key, part_ords |-> Iota(cfg.parts_per_chunk + 1),
            tracking_shards |-> {}]

new_req(kind, key, peer) ==
    CASE kind = "header" ->
           [type |-> "BlockHeadersRequest", hashes |-> <<key>>, peer_id |-> peer]
      [] kind = "block" ->
           [type |-> "BlockRequest", hash |-> key, peer_id |-> peer]
      [] kind = "chunk" ->
           [type |-> "PartialEncodedChunkRequest", target |-> peer,
            chunk_hash |-> key, part_ords |-> Iota(cfg.parts_per_chunk),
            tracking_shards |-> {}]

(* Dropping the Arc<Request> a fetch holds: with the last strong handle    *)
(* the WeakMap entry goes.                                                 *)
DropRequest(reqs, r) == [reqs EXCEPT ![r].strong = @ - 1]

DropEntry(wm, kind, key, r) ==
    IF request[r].strong = 1 /\ wm[kind][key] = r
    THEN [wm EXCEPT ![kind][key] = NoReq]
    ELSE wm

(* Mutant: the factory is called on every get_or_insert, and its Request  *)
(* replaces the entry.                                                     *)
FetchStartAlwaysNew(c, kind, key) ==
    /\ fetch[c].pc = "idle"
    /\ stats' = [stats EXCEPT !.start[kind] = @ + 1]
    /\ weakmap' = [weakmap EXCEPT ![kind][key] = c]
    /\ request' = [request EXCEPT ![c].strong = @ + 1]
    /\ fetch' = [fetch EXCEPT ![c] = [pc |-> "waiting", kind |-> kind,
                                      key |-> key, req |-> c,
                                      result |-> NoValue]]
    /\ ks' = [ks EXCEPT ![c].pc = "info"]
    /\ UNCHANGED <<cfg, locks, now, tokens, data, rx, ctx, obs>>

(* The body of Scope::run up to its await: X_start, get_or_insert,         *)
(* spawn_weak(keep_sending).                                               *)
FetchStart(c, kind, key) ==
    /\ fetch[c].pc = "idle"
    /\ LET r == GetOrInsert(kind, key, c) IN
        /\ stats' = [stats EXCEPT !.start[kind] = @ + 1]
        /\ weakmap' = [weakmap EXCEPT ![kind][key] = r]
        /\ request' = [request EXCEPT ![r].strong = @ + 1]
        /\ fetch' = [fetch EXCEPT ![c] = [pc |-> "waiting", kind |-> kind,
                                          key |-> key, req |-> r,
                                          result |-> NoValue]]
        /\ ks' = [ks EXCEPT ![c].pc = "info"]
    /\ UNCHANGED <<cfg, locks, now, tokens, data, rx, ctx, obs>>

(* ctx.wrap(recv.once.wait()) returns the value: X_done, Ok(res).          *)
FetchReturn(c) ==
    /\ fetch[c].pc = "waiting"
    /\ request[fetch[c].req].once # NoValue
    /\ stats' = [stats EXCEPT !.done[fetch[c].kind] = @ + 1]
    /\ fetch' = [fetch EXCEPT ![c].pc = "returned",
                              ![c].result = request[fetch[c].req].once]
    /\ request' = DropRequest(request, fetch[c].req)
    /\ weakmap' = DropEntry(weakmap, fetch[c].kind, fetch[c].key, fetch[c].req)
    /\ UNCHANGED <<cfg, locks, now, tokens, data, rx, ctx, ks, obs>>

(* The error results of a keep_sending task.                               *)
KsErrors == {"UnexpectedAck", "SendError", "RecvError"}

(* Mutant: the error of the weak keep_sending child ends the fetch.        *)
FetchFailsWithSender(c) ==
    /\ fetch[c].pc = "waiting"
    /\ CallerCtxDone(c) \/ ks[c].res \in KsErrors
    /\ fetch' = [fetch EXCEPT ![c].pc = "returned",
                              ![c].result = IF CallerCtxDone(c) THEN Cancelled
                                            ELSE [kind |-> ks[c].res]]
    /\ request' = DropRequest(request, fetch[c].req)
    /\ weakmap' = DropEntry(weakmap, fetch[c].kind, fetch[c].key, fetch[c].req)
    /\ UNCHANGED <<cfg, locks, now, tokens, data, rx, ctx, ks, stats, obs>>

(* Mutant: the Arc<Request> outlives the call that returns Cancelled (as   *)
(* if the keep_sending task held it).                                      *)
FetchCancelledKeepsRequest(c) ==
    /\ fetch[c].pc = "waiting"
    /\ CallerCtxDone(c)
    /\ fetch' = [fetch EXCEPT ![c].pc = "returned", ![c].result = Cancelled]
    /\ UNCHANGED <<cfg, locks, now, tokens, data, rx, weakmap, request, ctx, ks, stats, obs>>

(* Mutant: X_done is counted before the result of the wait is looked at.   *)
FetchCancelledCountsDone(c) ==
    /\ fetch[c].pc = "waiting"
    /\ CallerCtxDone(c)
    /\ stats' = [stats EXCEPT !.done[fetch[c].kind] = @ + 1]
    /\ fetch' = [fetch EXCEPT ![c].pc = "returned", ![c].result = Cancelled]
    /\ request' = DropRequest(request, fetch[c].req)
    /\ weakmap' = DropEntry(weakmap, fetch[c].kind, fetch[c].key, fetch[c].req)
    /\ UNCHANGED <<cfg, locks, now, tokens, data, rx, ctx, ks, obs>>

(* ctx.wrap(recv.once.wait()) returns Cancelled: the `?` leaves the body.  *)
FetchCancelled(c) ==
    /\ fetch[c].pc = "waiting"
    /\ CallerCtxDone(c)
    /\ fetch' = [fetch EXCEPT ![c].pc = "returned", ![c].result = Cancelled]
    /\ request' = DropRequest(request, fetch[c].req)
    /\ weakmap' = DropEntry(weakmap, fetch[c].kind, fetch[c].key, fetch[c].req)
    /\ UNCHANGED <<cfg, locks, now, tokens, data, rx, ctx, ks, stats, obs>>

(* The caller cancels the ctx it passed to fetch_X.                        *)
CancelCaller(c) ==
    /\ fetch[c].pc # "returned"
    /\ ~ctx.caller[c]
    /\ ctx' = [ctx EXCEPT !.caller[c] = TRUE]
    /\ UNCHANGED <<cfg, locks, now, tokens, data, rx, weakmap, request, fetch, ks, stats, obs>>

(* The root ctx is cancelled.                                              *)
CancelRoot ==
    /\ ~ctx.root
    /\ ctx' = [ctx EXCEPT !.root = TRUE]
    /\ UNCHANGED <<cfg, locks, now, tokens, data, rx, weakmap, request, fetch, ks, stats, obs>>

----------------------------------------------------------------------------
(* info() and keep_sending.                                                *)

KsEnd(c, res) ==
    [ks EXCEPT ![c].pc = "done", ![c].res = res, ![c].inflight = NoRequest,
               ![c].peers = <<>>, ![c].deadline = 0]

(* The head of the `for peer in peers` loop, or the next `loop` round.     *)
KsNextPc(peers) == IF peers = <<>> THEN "info" ELSE "allow"

(* Mutant: the loop iterates a peer it knows of, not the snapshot's         *)
(* connected_peers.                                                        *)
KsTakeKnownPeer(c, info, order) ==
    [ks EXCEPT ![c].snap = info, ![c].peers = <<1>>, ![c].pc = "allow"]

(* Mutant: the shuffled list is gone through twice per snapshot.           *)
KsTakeRepeats(c, info, order) ==
    [ks EXCEPT ![c].snap = info, ![c].peers = order \o order,
               ![c].pc = KsNextPc(order)]

KsTake(c, info, order) ==
    [ks EXCEPT ![c].snap = info, ![c].peers = order, ![c].pc = KsNextPc(order)]

(* info(): the critical section on self.data and the first poll of         *)
(* ctx.wrap(recv).  A poisoned Mutex makes lock().unwrap() panic.          *)
InfoReady(info) == info.num_connected_peers >= cfg.min_peers

KS_Info(c) ==
    /\ ks[c].pc = "info"
    /\ IF data.poisoned
       THEN /\ ks' = KsEnd(c, "Panic")
            /\ UNCHANGED <<data, rx>>
       ELSE IF InfoReady(data.info_)
       THEN /\ IF ScopeCtxDone(c)
               THEN ks' = KsEnd(c, "Cancelled")
               ELSE \E order \in Shuffles(data.info_.connected_peers) :
                        ks' = KsTake(c, data.info_, order)
            /\ UNCHANGED <<data, rx>>
       ELSE /\ data' = [data EXCEPT !.info_futures = Append(@, c)]
            /\ IF ScopeCtxDone(c)
               THEN /\ ks' = KsEnd(c, "Cancelled")
                    /\ UNCHANGED rx
               ELSE /\ ks' = [ks EXCEPT ![c].pc = "info_wait"]
                    /\ rx' = [rx EXCEPT ![c] = RxEmpty]
    /\ UNCHANGED <<cfg, locks, now, tokens, weakmap, request, fetch, ctx, stats, obs>>

(* The suspended info() resumes: the oneshot holds a snapshot, or its      *)
(* sender was dropped (RecvError).                                         *)
KS_InfoRecv(c) ==
    /\ ks[c].pc = "info_wait"
    /\ ~ScopeCtxDone(c)
    /\ rx[c].st \in {"value", "closed"}
    /\ IF rx[c].st = "value"
       THEN \E order \in Shuffles(rx[c].info.connected_peers) :
                ks' = KsTake(c, rx[c].info, order)
       ELSE ks' = KsEnd(c, "RecvError")
    /\ rx' = [rx EXCEPT ![c] = RxNone]
    /\ UNCHANGED <<cfg, locks, now, tokens, data, weakmap, request, fetch, ctx, stats, obs>>

(* Mutant: rate_limiter.allow does not look at the ctx.                    *)
KS_CancelledNotInAllow(c) ==
    /\ ks[c].pc \in {"info_wait", "wait"}
    /\ ScopeCtxDone(c)
    /\ ks' = KsEnd(c, "Cancelled")
    /\ rx' = [rx EXCEPT ![c] = RxNone]
    /\ UNCHANGED <<cfg, locks, now, tokens, data, weakmap, request, fetch, ctx, stats, obs>>

(* A ctx-aware await (ctx.wrap in info, rate_limiter.allow, ctx.wait)      *)
(* ends with Cancelled once the ctx of the task is cancelled.              *)
KS_Cancelled(c) ==
    /\ ks[c].pc \in {"info_wait", "allow", "wait"}
    /\ ScopeCtxDone(c)
    /\ ks' = KsEnd(c, "Cancelled")
    /\ rx' = [rx EXCEPT ![c] = RxNone]
    /\ UNCHANGED <<cfg, locks, now, tokens, data, weakmap, request, fetch, ctx, stats, obs>>

(* Mutant: the send does not go through rate_limiter.allow.                *)
KS_SendNoToken(c) ==
    /\ ks[c].pc = "allow"
    /\ ~ScopeCtxDone(c)
    /\ TotalSends < MaxSends
    /\ LET peer == Head(ks[c].peers)
           r == fetch[c].req
       IN /\ request' = [request EXCEPT
                            ![r].send_times = register(@, peer, now)]
          /\ ks' = [ks EXCEPT ![c].pc = "send",
                              ![c].peers = Tail(@),
                              ![c].inflight = new_req(fetch[c].kind, fetch[c].key, peer),
                              ![c].sent = @ + 1]
    /\ obs' = [obs EXCEPT !.winSends = IF obs.winStart >= 0 THEN @ + 1 ELSE @,
                          !.lastSend = now]
    /\ UNCHANGED <<cfg, locks, now, tokens, data, rx, weakmap, fetch, ctx, stats>>

(* Mutant: rate_limiter.allow hands out a token to a cancelled task.       *)
KS_SendWhenCancelled(c) ==
    /\ ks[c].pc = "allow"
    /\ tokens > 0
    /\ TotalSends < MaxSends
    /\ LET peer == Head(ks[c].peers)
           r == fetch[c].req
       IN /\ tokens' = tokens - 1
          /\ request' = [request EXCEPT
                            ![r].send_times = register(@, peer, now)]
          /\ ks' = [ks EXCEPT ![c].pc = "send",
                              ![c].peers = Tail(@),
                              ![c].inflight = new_req(fetch[c].kind, fetch[c].key, peer),
                              ![c].sent = @ + 1]
    /\ obs' = [obs EXCEPT !.winSends = IF obs.winStart >= 0 THEN @ + 1 ELSE @,
                          !.lastSend = now]
    /\ UNCHANGED <<cfg, locks, now, data, rx, weakmap, fetch, ctx, stats>>

(* rate_limiter.allow returns with a token; send_times.register; the       *)
(* request is handed to the transport.                                     *)
KS_Send(c) ==
    /\ ks[c].pc = "allow"
    /\ ~ScopeCtxDone(c)
    /\ tokens > 0
    /\ TotalSends < MaxSends
    /\ LET peer == Head(ks[c].peers)
           r == fetch[c].req
       IN /\ tokens' = tokens - 1
          /\ request' = [request EXCEPT
                            ![r].send_times = register(@, peer, now)]
          /\ ks' = [ks EXCEPT ![c].pc = "send",
                              ![c].peers = Tail(@),
                              ![c].inflight = new_req(fetch[c].kind, fetch[c].key, peer),
                              ![c].sent = @ + 1]
    /\ obs' = [obs EXCEPT !.winSends = IF obs.winStart >= 0 THEN @ + 1 ELSE @,
                          !.lastSend = now]
    /\ UNCHANGED <<cfg, locks, now, data, rx, weakmap, fetch, ctx, stats>>

Acks == {"NoResponse", "RouteNotFound", "Other", "MailboxError"}

(* Mutant: RouteNotFound is treated like any other unexpected ack.         *)
KS_AckRouteEnds(c, ack) ==
    /\ ks[c].pc = "send"
    /\ CASE ack = "NoResponse" ->
              /\ stats' = [stats EXCEPT !.msgs_sent = @ + 1]
              /\ ks' = [ks EXCEPT ![c].pc = "wait", ![c].inflight = NoRequest,
                                  ![c].deadline = now + TimeoutTicks]
         [] ack = "RouteNotFound" ->
              /\ stats' = [stats EXCEPT !.msgs_send_failures = @ + 1]
              /\ ks' = KsEnd(c, "UnexpectedAck")
         [] ack = "Other" ->
              /\ ks' = KsEnd(c, "UnexpectedAck")
              /\ UNCHANGED stats
         [] ack = "MailboxError" ->
              /\ ks' = KsEnd(c, "SendError")
              /\ UNCHANGED stats
    /\ UNCHANGED <<cfg, locks, now, tokens, data, rx, weakmap, request, fetch, ctx, obs>>

(* send.await? completes with the transport's answer.                      *)
KS_Ack(c, ack) ==
    /\ ks[c].pc = "send"
    /\ CASE ack = "NoResponse" ->
              /\ stats' = [stats EXCEPT !.msgs_sent = @ + 1]
              /\ ks' = [ks EXCEPT ![c].pc = "wait", ![c].inflight = NoRequest,
                                  ![c].deadline = now + TimeoutTicks]
         [] ack = "RouteNotFound" ->
              /\ stats' = [stats EXCEPT !.msgs_send_failures = @ + 1]
              /\ ks' = [ks EXCEPT ![c].pc = KsNextPc(ks[c].peers),
                                  ![c].inflight = NoRequest]
         [] ack = "Other" ->
              /\ ks' = KsEnd(c, "UnexpectedAck")
              /\ UNCHANGED stats
         [] ack = "MailboxError" ->
              /\ ks' = KsEnd(c, "SendError")
              /\ UNCHANGED stats
    /\ UNCHANGED <<cfg, locks, now, tokens, data, rx, weakmap, request, fetch, ctx, obs>>

(* Mutant: the loop goes on without the request_timeout having elapsed.   *)
KS_WaitDoneEarly(c) ==
    /\ ks[c].pc = "wait"
    /\ ~ScopeCtxDone(c)
    /\ ks' = [ks EXCEPT ![c].pc = KsNextPc(ks[c].peers), ![c].deadline = 0]
    /\ UNCHANGED <<cfg, locks, now, tokens, data, rx, weakmap, request, fetch, ctx, stats, obs>>

(* ctx.wait(request_timeout) has elapsed.                                  *)
KS_WaitDone(c) ==
    /\ ks[c].pc = "wait"
    /\ ~ScopeCtxDone(c)
    /\ now >= ks[c].deadline
    /\ ks' = [ks EXCEPT ![c].pc = KsNextPc(ks[c].peers), ![c].deadline = 0]
    /\ UNCHANGED <<cfg, locks, now, tokens, data, rx, weakmap, request, fetch, ctx, stats, obs>>

(* Time passes by d periods; the bucket refills one token per period up to *)
(* the burst.                                                              *)
Tick(d) ==
    /\ ((now + d) % TimeoutTicks) <= MaxFine
    /\ ((now + d) \div TimeoutTicks) <= MaxJumps
    /\ now' = now + d
    /\ tokens' = Min(Burst, tokens + d)
    /\ UNCHANGED <<cfg, locks, data, rx, weakmap, request, fetch, ctx, ks, stats, obs>>

----------------------------------------------------------------------------
(* notify: the inbound handler.                                            *)

(* The receiver of a queued sender is gone when the info() that created it *)
(* is no longer suspended on it.                                           *)
ReceiverGone(c) == ks[c].pc # "info_wait"

FirstGone(q) ==
    IF \E i \in DOMAIN q : ReceiverGone(q[i])
    THEN CHOOSE i \in DOMAIN q :
            /\ ReceiverGone(q[i])
            /\ \A j \in DOMAIN q : ReceiverGone(q[j]) => i <= j
    ELSE 0

(* Mutant: the senders are served from the back of the queue.              *)
LastGone(q) ==
    IF \E i \in DOMAIN q : ReceiverGone(q[i])
    THEN CHOOSE i \in DOMAIN q :
            /\ ReceiverGone(q[i])
            /\ \A j \in DOMAIN q : ReceiverGone(q[j]) => j <= i
    ELSE 0

DrainFromBack(q, info) ==
    LET g == LastGone(q) IN
    [c \in Callers |->
        IF \E i \in DOMAIN q : q[i] = c
        THEN LET i == CHOOSE j \in DOMAIN q : q[j] = c IN
             IF g = 0 \/ i > g THEN RxValue(info)
             ELSE IF i < g /\ ~ReceiverGone(c) THEN RxClosed
             ELSE rx[c]
        ELSE rx[c]]

(* for s in info_futures.split_off(0) { s.send(info).unwrap() }: senders   *)
(* are served in queue order; the first send to a dropped receiver panics, *)
(* and the unwinding drops the senders behind it.                          *)
Drain(q, info) ==
    LET g == FirstGone(q) IN
    [c \in Callers |->
        IF \E i \in DOMAIN q : q[i] = c
        THEN LET i == CHOOSE j \in DOMAIN q : q[j] = c IN
             IF g = 0 \/ i < g THEN RxValue(info)
             ELSE IF i > g /\ ~ReceiverGone(c) THEN RxClosed
             ELSE rx[c]
        ELSE rx[c]]

NotifyNetworkInfo(S) ==
    /\ stats.msgs_recv < MaxRecv
    /\ stats' = [stats EXCEPT !.msgs_recv = @ + 1]
    /\ IF data.poisoned
       THEN UNCHANGED <<data, rx, obs>>
       ELSE LET info == NetworkInfo(data.info_.id + 1, S) IN
            /\ obs' = [obs EXCEPT !.everPeers = @ \/ S # {}]
            /\ IF ~InfoReady(info)
               THEN /\ data' = [data EXCEPT !.info_ = info]
                    /\ UNCHANGED rx
               ELSE /\ data' = [info_ |-> info, info_futures |-> <<>>,
                                poisoned |-> FirstGone(data.info_futures) # 0]
                    /\ rx' = Drain(data.info_futures, info)
    /\ UNCHANGED <<cfg, locks, now, tokens, weakmap, request, fetch, ctx, ks>>

(* Mutant: the result of once.set is not looked at and the value is        *)
(* stored again.                                                           *)
RespondOverwrite(kind, key, payload, peer_id) ==
    LET r == WeakGet(kind, key) IN
    IF r # NoReq
    THEN /\ request' = [request EXCEPT ![r].once = payload]
         /\ stats' = [stats EXCEPT
                        !.msgs_recv = @ + 1,
                        !.peers = add_response_time(@, request[r].send_times,
                                                    peer_id, now)]
         /\ obs' = [obs EXCEPT
                      !.sets[r] = @ + 1,
                      !.suspicious[peer_id] =
                          IF HasLatency(request[r].send_times, peer_id)
                          THEN @ ELSE @ + 1]
    ELSE /\ stats' = [stats EXCEPT !.msgs_recv = @ + 1]
         /\ obs' = [obs EXCEPT !.dups = IF r # NoReq THEN @ + 1 ELSE @]
         /\ UNCHANGED request

(* Mutant: add_response_time is called whether or not once.set succeeded. *)
RespondAlwaysRecords(kind, key, payload, peer_id) ==
    LET r == WeakGet(kind, key) IN
    IF r # NoReq
    THEN /\ request' = [request EXCEPT ![r].once = OnceSet(@, payload)]
         /\ stats' = [stats EXCEPT
                        !.msgs_recv = @ + 1,
                        !.peers = add_response_time(@, request[r].send_times,
                                                    peer_id, now)]
         /\ obs' = [obs EXCEPT
                      !.sets[r] = IF OnceSetOk(request[r].once) THEN @ + 1 ELSE @,
                      !.dups = IF OnceSetOk(request[r].once) THEN @ ELSE @ + 1]
    ELSE /\ stats' = [stats EXCEPT !.msgs_recv = @ + 1]
         /\ UNCHANGED <<request, obs>>

(* map.get(key).map(|r| if r.once.set(v).is_ok() { add_response_time }).   *)
Respond(kind, key, payload, peer_id) ==
    LET r == WeakGet(kind, key) IN
    IF r # NoReq /\ OnceSetOk(request[r].once)
    THEN /\ request' = [request EXCEPT ![r].once = OnceSet(@, payload)]
         /\ stats' = [stats EXCEPT
                        !.msgs_recv = @ + 1,
                        !.peers = add_response_time(@, request[r].send_times,
                                                    peer_id, now)]
         /\ obs' = [obs EXCEPT
                      !.sets[r] = @ + 1,
                      !.suspicious[peer_id] =
                          IF HasLatency(request[r].send_times, peer_id)
                          THEN @ ELSE @ + 1]
    ELSE /\ stats' = [stats EXCEPT !.msgs_recv = @ + 1]
         /\ obs' = [obs EXCEPT !.dups = IF r # NoReq THEN @ + 1 ELSE @]
         /\ UNCHANGED request

NotifyBlock(hash, peer_id) ==
    /\ stats.msgs_recv < MaxRecv
    /\ Respond("block", hash, BlockPayload(hash), peer_id)
    /\ UNCHANGED <<cfg, locks, now, tokens, data, rx, weakmap, fetch, ctx, ks>>

(* Mutant: an empty batch is looked up under the first hash.               *)
NotifyBlockHeadersEmptyKeyed(headers, peer_id) ==
    /\ stats.msgs_recv < MaxRecv
    /\ Respond("header",
               IF MinByHeight(headers) # 0
               THEN headers[MinByHeight(headers)].prev_hash ELSE 1,
               HeadersPayload(headers), peer_id)
    /\ UNCHANGED <<cfg, locks, now, tokens, data, rx, weakmap, fetch, ctx, ks>>

NotifyBlockHeaders(headers, peer_id) ==
    /\ stats.msgs_recv < MaxRecv
    /\ IF MinByHeight(headers) # 0
       THEN Respond("header", headers[MinByHeight(headers)].prev_hash,
                    HeadersPayload(headers), peer_id)
       ELSE /\ stats' = [stats EXCEPT !.msgs_recv = @ + 1]
            /\ UNCHANGED <<request, obs>>
    /\ UNCHANGED <<cfg, locks, now, tokens, data, rx, weakmap, fetch, ctx, ks>>

NotifyChunk(chunk_hash, parts, peer_id) ==
    /\ stats.msgs_recv < MaxRecv
    /\ Respond("chunk", chunk_hash, ChunkPayload(chunk_hash, parts), peer_id)
    /\ UNCHANGED <<cfg, locks, now, tokens, data, rx, weakmap, fetch, ctx, ks>>

(* Any other NetworkClientMessages variant.                                *)
NotifyOther ==
    /\ stats.msgs_recv < MaxRecv
    /\ stats' = [stats EXCEPT !.msgs_recv = @ + 1]
    /\ UNCHANGED <<cfg, locks, now, tokens, data, rx, weakmap, request, fetch, ctx, ks, obs>>

----------------------------------------------------------------------------
Fetch(c) ==
    \/ \E kind \in Kinds, key \in Hashes : FetchStart(c, kind, key)
    \/ FetchReturn(c)
    \/ FetchCancelled(c)
    \/ CancelCaller(c)

KeepSending(c) ==
    \/ KS_Info(c)
    \/ KS_InfoRecv(c)
    \/ KS_Cancelled(c)
    \/ KS_Send(c)
    \/ \E ack \in Acks : KS_Ack(c, ack)
    \/ KS_WaitDone(c)

Notify ==
    \/ \E S \in SUBSET Peers : NotifyNetworkInfo(S)
    \/ \E h \in Hashes, p \in Peers : NotifyBlock(h, p)
    \/ \E b \in HeaderBatches, p \in Peers : NotifyBlockHeaders(b, p)
    \/ \E h \in Hashes, parts \in 1..2, p \in Peers : NotifyChunk(h, parts, p)
    \/ NotifyOther

(* An observer starts the time window it measures (once, at any instant).  *)
StartWindow ==
    /\ obs.winStart < 0
    /\ obs' = [obs EXCEPT !.winStart = now, !.winSends = 0,
                          !.winBase = stats.msgs_sent + stats.msgs_send_failures]
    /\ UNCHANGED <<cfg, locks, now, tokens, data, rx, weakmap, request, fetch, ctx, ks, stats>>

Next ==
    \/ \E c \in Callers : Fetch(c)
    \/ \E c \in Callers : KeepSending(c)
    \/ Notify
    \/ CancelRoot
    \/ \E d \in {1, TimeoutTicks} : Tick(d)
    \/ StartWindow

Spec == Init /\ [][Next]_vars

----------------------------------------------------------------------------
(* Scenario specifications.  Each takes the actions above and restricts    *)
(* the environment (which calls are made, which messages arrive, whether   *)
(* time passes), so that its state space can be explored exhaustively.     *)

(* Coalescing and response matching: fetches of all three kinds and the    *)
(* response messages; the keep_sending tasks are spawned but not yet run.  *)
InitFetch ==
    InitCfg([min_peers : {MaxMinPeers}, qps_limit : {1},
             parts_per_chunk : {PartsPerChunk}])

NextFetch ==
    \/ \E c \in Callers : Fetch(c)
    \/ \E h \in Hashes, p \in Peers : NotifyBlock(h, p)
    \/ \E b \in HeaderBatches, p \in Peers : NotifyBlockHeaders(b, p)
    \/ \E h \in Hashes, parts \in 1..2, p \in Peers : NotifyChunk(h, parts, p)
    \/ NotifyOther
    \/ CancelRoot

SpecFetch == InitFetch /\ [][NextFetch]_vars

(* The fan-out: block fetches, their keep_sending tasks, info(), the       *)
(* NetworkInfo feed and block responses, with no time passing (the bucket  *)
(* is not refilled and no request_timeout elapses).                        *)
InitNet ==
    InitCfg([min_peers : 0..MaxMinPeers, qps_limit : {MaxQps},
             parts_per_chunk : {PartsPerChunk}])

FetchBlock(c) ==
    \/ \E key \in Hashes : FetchStart(c, "block", key)
    \/ FetchReturn(c)
    \/ FetchCancelled(c)
    \/ CancelCaller(c)

KeepSendingNow(c) ==
    \/ KS_Info(c)
    \/ KS_InfoRecv(c)
    \/ KS_Cancelled(c)
    \/ KS_Send(c)
    \/ \E ack \in Acks : KS_Ack(c, ack)

NextNet ==
    \/ \E c \in Callers : FetchBlock(c)
    \/ \E c \in Callers : KeepSendingNow(c)
    \/ \E S \in SUBSET Peers : NotifyNetworkInfo(S)
    \/ \E h \in Hashes, p \in Peers : NotifyBlock(h, p)

SpecNet == InitNet /\ [][NextNet]_vars

(* Cancellation: block fetches of one key, their keep_sending tasks, the   *)
(* NetworkInfo feed, block responses and the cancellation of the root ctx, *)
(* with a bucket of one token and no time passing.  The executor polls a   *)
(* task that can run, and the transport answers every send.                *)
InitCancel ==
    InitCfg([min_peers : 0..MaxMinPeers, qps_limit : {1},
             parts_per_chunk : {PartsPerChunk}])

NextCancel ==
    \/ \E c \in Callers :
          \/ FetchStart(c, "block", 1)
          \/ FetchReturn(c)
          \/ FetchCancelled(c)
    \/ \E c \in Callers : KeepSendingNow(c)
    \/ \E S \in SUBSET Peers : NotifyNetworkInfo(S)
    \/ \E p \in Peers : NotifyBlock(1, p)
    \/ CancelRoot

SpecCancel == InitCancel /\ [][NextCancel]_vars

(* Rate limiting: block fetches that are never answered, their             *)
(* keep_sending tasks with acks and request timeouts, NetworkInfo          *)
(* messages listing every peer, the passing of time and the observer's     *)
(* window.                                                                 *)
InitRate ==
    InitCfg([min_peers : {MaxMinPeers}, qps_limit : 1..MaxQps,
             parts_per_chunk : {PartsPerChunk}])

NextRate ==
    \/ \E c \in Callers : FetchStart(c, "block", 1)
    \/ \E c \in Callers :
          \/ KS_Info(c)
          \/ KS_InfoRecv(c)
          \/ KS_Send(c)
          \/ \E ack \in Acks : KS_Ack(c, ack)
          \/ KS_WaitDone(c)
    \/ NotifyNetworkInfo(Peers)
    \/ \E d \in {1, TimeoutTicks} : Tick(d)
    \/ StartWindow

SpecRate == InitRate /\ [][NextRate]_vars

(* The chunk fan-out: chunk fetches for every parts_per_chunk, their       *)
(* keep_sending tasks and the NetworkInfo feed, with no time passing.      *)
InitChunk ==
    InitCfg([min_peers : {MaxMinPeers}, qps_limit : {MaxQps},
             parts_per_chunk : 1..PartsPerChunk])

NextChunk ==
    \/ \E c \in Callers, key \in Hashes : FetchStart(c, "chunk", key)
    \/ \E c \in Callers :
          \/ KS_Info(c)
          \/ KS_InfoRecv(c)
          \/ KS_Send(c)
          \/ \E ack \in Acks : KS_Ack(c, ack)
    \/ \E S \in SUBSET Peers : NotifyNetworkInfo(S)

SpecChunk == InitChunk /\ [][NextChunk]_vars

(* Routing failures: one block fetch with two connected peers,             *)
(* of which peer 1 has no route (the transport answers RouteNotFound) and  *)
(* peer 2 is reachable (NoResponse) and may answer with the block.  The    *)
(* executor polls a task that can run, the transport answers every send,   *)
(* and time passes when a task waits for it (for a token of the empty      *)
(* bucket or for the request_timeout), so that the bounded clock is not    *)
(* used up while nothing waits.                                            *)
AckFor(m) ==
    IF m # NoRequest /\ m.peer_id = 1 THEN "RouteNotFound" ELSE "NoResponse"

AwaitedTick(d) ==
    /\ \/ tokens = 0 /\ \E c \in Callers : ks[c].pc = "allow"
       \/ \E c \in Callers : ks[c].pc = "wait"
    /\ Tick(d)

InitRoute ==
    InitCfg([min_peers : {MaxMinPeers}, qps_limit : 1..MaxQps,
             parts_per_chunk : {PartsPerChunk}])

NextRoute ==
    \/ FetchStart(1, "block", 1)
    \/ \E c \in Callers : FetchReturn(c)
    \/ \E c \in Callers :
          \/ KS_Info(c)
          \/ KS_InfoRecv(c)
          \/ KS_Cancelled(c)
          \/ KS_Send(c)
          \/ KS_Ack(c, AckFor(ks[c].inflight))
          \/ KS_WaitDone(c)
    \/ NotifyNetworkInfo(Peers)
    \/ NotifyBlock(1, 2)
    \/ \E d \in {1, TimeoutTicks} : AwaitedTick(d)

SpecRoute == InitRoute /\ [][NextRoute]_vars

FairRoute ==
    /\ SpecRoute
    /\ WF_vars(\E d \in {1, TimeoutTicks} : AwaitedTick(d))
    /\ \A c \in Callers :
          /\ WF_vars(FetchReturn(c))
          /\ WF_vars(KS_Info(c))
          /\ WF_vars(KS_InfoRecv(c))
          /\ WF_vars(KS_Cancelled(c))
          /\ WF_vars(KS_Send(c))
          /\ WF_vars(KS_Ack(c, AckFor(ks[c].inflight)))
          /\ WF_vars(KS_WaitDone(c))

FairCancel ==
    /\ SpecCancel
    /\ \A c \in Callers :
          /\ WF_vars(FetchCancelled(c))
          /\ WF_vars(KS_Info(c))
          /\ WF_vars(KS_Cancelled(c))
          /\ WF_vars(\E ack \in Acks : KS_Ack(c, ack))

----------------------------------------------------------------------------
(* Vocabulary of the properties.                                           *)

Returned(c) == fetch[c].pc = "returned"

ReturnedPayload(c) == Returned(c) /\ fetch[c].result # Cancelled

Pending(c) == fetch[c].pc = "waiting"

KsActive(c) == ks[c].pc \notin {"idle", "done"}

Live(r) == request[r].strong > 0

(* The positions of the headers of least height in a batch.                *)
MinHeightPositions(b) ==
    {i \in DOMAIN b : \A j \in DOMAIN b : b[i].height <= b[j].height}

----------------------------------------------------------------------------
(* C1: for the callers of fetch_X(k) that share one Request, exactly one   *)
(* once.set succeeds (none before a response, never a second one), and     *)
(* every caller that returns a payload returns the value that set stored,  *)
(* so all of them return the same payload.                                 *)
C1_OneSetSamePayload ==
    \A r \in Callers :
        /\ obs.sets[r] <= 1
        /\ (obs.sets[r] = 1) <=> (request[r].once # NoValue)
        /\ \A c \in Callers :
              (ReturnedPayload(c) /\ fetch[c].req = r) =>
                  /\ obs.sets[r] = 1
                  /\ fetch[c].result = request[r].once
        /\ \A c1, c2 \in Callers :
              (/\ ReturnedPayload(c1) /\ ReturnedPayload(c2)
               /\ fetch[c1].req = r /\ fetch[c2].req = r) =>
                  fetch[c1].result = fetch[c2].result

(* Two callers shared one Request, two responses for its key arrived, and  *)
(* both callers returned a payload.                                        *)
C1_Witness ==
    \E c1, c2 \in Callers :
        /\ c1 # c2
        /\ fetch[c1].req = fetch[c2].req
        /\ ReturnedPayload(c1) /\ ReturnedPayload(c2)
        /\ fetch[c1].kind = "chunk"
        /\ stats.msgs_recv = 2
        /\ stats.peers.requests.requests = 1

----------------------------------------------------------------------------
(* C3: a fetch returns only a payload that matches its key: a block whose  *)
(* hash is the key, a chunk response whose chunk_hash is the key, a header *)
(* batch that is not empty and has a header of least height whose          *)
(* prev_hash is the key.                                                   *)
PayloadMatches(kind, key, v) ==
    CASE kind = "block" -> v.kind = "block" /\ v.hash = key
      [] kind = "chunk" -> v.kind = "chunk" /\ v.chunk_hash = key
      [] kind = "header" ->
           /\ v.kind = "header"
           /\ \E i \in MinHeightPositions(v.headers) : v.headers[i].prev_hash = key
      [] OTHER -> FALSE

C3_PayloadMatchesKey ==
    \A c \in Callers :
        ReturnedPayload(c) => PayloadMatches(fetch[c].kind, fetch[c].key, fetch[c].result)

(* A header fetch returned a batch of two headers whose least height is    *)
(* the second one's and whose first header is keyed otherwise, as the      *)
(* second message received.                                                *)
C3_Witness ==
    \E c \in Callers :
        /\ ReturnedPayload(c)
        /\ fetch[c].kind = "header"
        /\ Len(fetch[c].result.headers) = 2
        /\ fetch[c].result.headers[2].height < fetch[c].result.headers[1].height
        /\ fetch[c].result.headers[1].prev_hash # fetch[c].key
        /\ stats.msgs_recv = 2

----------------------------------------------------------------------------
(* C10: notify(BlockHeaders(headers, peer)) resolves a pending             *)
(* fetch_block_headers(K) only if the batch is not empty and a header of   *)
(* least height has prev_hash = K, and it does resolve it when the batch   *)
(* is not empty and every header of least height has prev_hash = K; an     *)
(* empty batch or one keyed otherwise leaves the Once of K unset; no       *)
(* notify changes header_done or any fetch.                                *)
HeadersPending(K) ==
    /\ WeakGet("header", K) # NoReq
    /\ request[WeakGet("header", K)].once = NoValue

(* Every header of least height of the batch has prev_hash = K.            *)
KeyedBy(b, K) == b # <<>> /\ \A i \in MinHeightPositions(b) : b[i].prev_hash = K

C10_NotifyStep ==
    /\ stats'.done = stats.done
    /\ fetch' = fetch
    /\ \A K \in Hashes :
          HeadersPending(K) =>
              LET r == WeakGet("header", K) IN
              /\ (request'[r].once # NoValue) =>
                    /\ request'[r].once.kind = "header"
                    /\ \E i \in MinHeightPositions(request'[r].once.headers) :
                          request'[r].once.headers[i].prev_hash = K
              /\ \A b \in {x \in HeaderBatches : KeyedBy(x, K)}, p \in Peers :
                    NotifyBlockHeaders(b, p) => request'[r].once = HeadersPayload(b)

C10_HeadersResolve ==
    [][(stats'.msgs_recv # stats.msgs_recv) => C10_NotifyStep]_vars

(* A fetch_block_headers(K) was left pending by a first batch and resolved *)
(* by a second one whose header of least height is not its first header.   *)
C10_Witness ==
    \E c \in Callers :
        /\ fetch[c].kind = "header"
        /\ Pending(c)
        /\ request[fetch[c].req].once # NoValue
        /\ Len(request[fetch[c].req].once.headers) = 2
        /\ request[fetch[c].req].once.headers[2].height
              < request[fetch[c].req].once.headers[1].height
        /\ stats.msgs_recv = 2
        /\ stats.peers.requests.requests = 1
        /\ stats.done["header"] = 0

----------------------------------------------------------------------------
(* C2 as stated: at most one keep_sending task is active per live Request. *)
LoopsOn(r) == {c \in Callers : fetch[c].req = r /\ KsActive(c)}

C2_OneLoopPerRequest ==
    \A r \in Callers : Live(r) => Cardinality(LoopsOn(r)) <= 1

(* C2, amended: at most one keep_sending task is active per fetch_X call;  *)
(* the callers that share a Request each run their own loop on the one     *)
(* shared SendTimes, so the sends the transport sees for the Request are   *)
(* the sends of all these loops together, each for the key of its call.    *)
C2_OneLoopPerCall ==
    /\ \A c \in Callers :
          /\ KsActive(c) => fetch[c].pc # "idle"
          /\ ks[c].inflight # NoRequest =>
                /\ ks[c].pc = "send"
                /\ ks[c].inflight.type = "BlockRequest"
                /\ ks[c].inflight.hash = fetch[c].key
    /\ \A r \in Callers :
          request[r].send_times.sends =
              SumOver([c \in Callers |-> IF fetch[c].req = r THEN ks[c].sent ELSE 0],
                      Callers)

(* Two callers share a live Request and each one's loop has sent to the    *)
(* same peer.                                                              *)
C2_Witness ==
    \E c1, c2 \in Callers :
        /\ c1 # c2
        /\ KsActive(c1) /\ KsActive(c2)
        /\ fetch[c1].req = fetch[c2].req
        /\ Live(fetch[c1].req)
        /\ ks[c1].sent = 1 /\ ks[c2].sent = 1
        /\ Cardinality(DOMAIN request[fetch[c1].req].send_times.times) = 1

----------------------------------------------------------------------------
(* C5: fetch_X returns the payload of its Request or Cancelled (and        *)
(* Cancelled only when its ctx is cancelled); a keep_sending that ended    *)
(* with an error leaves its fetch_X pending until a response arrives or    *)
(* the ctx is cancelled.                                                   *)
C5_PayloadOrCancelled ==
    \A c \in Callers :
        /\ Returned(c) =>
              \/ fetch[c].result = Cancelled /\ CallerCtxDone(c)
              \/ /\ fetch[c].result.kind = fetch[c].kind
                 /\ fetch[c].result = request[fetch[c].req].once
        /\ (/\ ks[c].res \in KsErrors
            /\ ~CallerCtxDone(c)
            /\ request[fetch[c].req].once = NoValue) => Pending(c)

(* A keep_sending ended on an unexpected ack after its send, and its       *)
(* fetch_X later returned the block.                                       *)
C5_Witness ==
    \E c \in Callers :
        /\ ks[c].res = "UnexpectedAck"
        /\ ks[c].sent = 1
        /\ ReturnedPayload(c)
        /\ ~CallerCtxDone(c)

----------------------------------------------------------------------------
(* C8 as stated, on every step of an info() call whose ctx is live: with a *)
(* snapshot of at least min_peers peers installed the call returns that    *)
(* snapshot without suspending; a suspended call stays suspended until a   *)
(* notify(NetworkInfo) with at least min_peers peers arrives, and then     *)
(* receives that snapshot; no snapshot with fewer peers is ever returned.  *)
Suspended(c) == ks[c].pc = "info_wait" /\ rx[c] = RxEmpty

C8_InfoStep(c) ==
    /\ (ks[c].pc = "info" /\ ks'[c] # ks[c] /\ InfoReady(data.info_)) =>
          /\ ks'[c].pc \in {"info", "allow"}
          /\ ks'[c].snap = data.info_
    /\ (Suspended(c) /\ data'.info_ # data.info_ /\ InfoReady(data'.info_)) =>
          rx'[c] = RxValue(data'.info_)
    /\ (Suspended(c) /\ ~(data'.info_ # data.info_ /\ InfoReady(data'.info_))) =>
          rx'[c] = rx[c]
    /\ ks'[c].snap # ks[c].snap => InfoReady(ks'[c].snap)

C8_InfoContract ==
    [][\A c \in Callers : (~ScopeCtxDone(c) /\ ~ScopeCtxDone(c)') => C8_InfoStep(c)]_vars

----------------------------------------------------------------------------
(* C9 as stated, for a snapshot s that info() may return (at least         *)
(* min_peers peers): once notify(NetworkInfo(s)) has installed s, an       *)
(* info() call with a live ctx returns s, the installed object.            *)
C9_InfoStep(c) ==
    (/\ ks[c].pc = "info"
     /\ ks'[c] # ks[c]
     /\ data.info_.id >= 1
     /\ InfoReady(data.info_)) =>
        /\ ks'[c].pc # "done"
        /\ ks'[c].snap.id = data.info_.id

C9_NotifyThenInfo ==
    [][\A c \in Callers : ~ScopeCtxDone(c) => C9_InfoStep(c)]_vars

----------------------------------------------------------------------------
(* C4: once the root ctx is cancelled, every pending fetch_X returns (with *)
(* Cancelled, unless its Once had been set), every keep_sending task ends  *)
(* and with it every info() call that was suspended.                       *)
C4_ReturnStep(c) ==
    (ctx.root /\ Pending(c) /\ Returned(c)') =>
        \/ fetch'[c].result = Cancelled
        \/ request[fetch[c].req].once # NoValue

----------------------------------------------------------------------------
(* C7: as long as no snapshot with a connected peer has been installed     *)
(* (whatever min_peers is), nothing is sent to the transport and no        *)
(* response is made up: a fetch_X returns only with Cancelled after its    *)
(* ctx was cancelled or with a value that a notify stored; and a pending   *)
(* fetch_X whose ctx is cancelled returns.                                 *)
C7_NoPeersState ==
    ~obs.everPeers =>
        /\ TotalSends = 0
        /\ stats.msgs_sent = 0 /\ stats.msgs_send_failures = 0
        /\ \A c \in Callers :
              /\ ks[c].sent = 0 /\ ks[c].inflight = NoRequest
              /\ ks[c].pc \in {"idle", "info", "info_wait", "done"}
              /\ request[c].once # NoValue => stats.peers.requests.requests >= 1
              /\ Returned(c) =>
                    \/ fetch[c].result = Cancelled /\ CallerCtxDone(c)
                    \/ fetch[c].result = request[fetch[c].req].once
                         /\ request[fetch[c].req].once # NoValue

----------------------------------------------------------------------------
(* C6 as stated: in a window of T seconds (Q*T periods of the bucket) the  *)
(* value msgs_sent + msgs_send_failures grows by at most Q*T + Q.          *)
C6_AckWindow ==
    obs.winStart >= 0 =>
        stats.msgs_sent + stats.msgs_send_failures - obs.winBase
            <= (now - obs.winStart) + Burst

(* C6: every send to the transport, over all loops of all requests, has    *)
(* consumed its own token of the one bucket, so the sends (not the acks    *)
(* counted in msgs_sent + msgs_send_failures) number at most Q*T + Q in a  *)
(* window of T seconds; the counters never exceed the sends made so far,   *)
(* and in a window they grow by at most Q*T + Q plus one ack per loop that *)
(* was outstanding when the window began; with Q = 1 two sends are at      *)
(* least one period (1 s) apart.                                           *)
C6_SendsState ==
    /\ TotalSends + tokens <= Burst + now
    /\ stats.msgs_sent + stats.msgs_send_failures <= TotalSends
    /\ obs.winStart >= 0 =>
          /\ obs.winSends <= (now - obs.winStart) + Burst
          /\ stats.msgs_sent + stats.msgs_send_failures - obs.winBase
                <= (now - obs.winStart) + Burst + Cardinality(Callers)

C6_SendStep ==
    (TotalSends' > TotalSends) =>
        /\ tokens >= 1 /\ tokens' = tokens - 1
        /\ TotalSends' = TotalSends + 1
        /\ (cfg.qps_limit = 1 /\ obs.lastSend >= 0) => now >= obs.lastSend + 1

C6_RateLimit == []C6_SendsState /\ [][C6_SendStep]_vars

(* With Q = 1: two sends have been made and acknowledged, one of them in   *)
(* the observer's window and after time had passed, and a loop is held in  *)
(* rate_limiter.allow by the empty bucket.                                 *)
C6_Witness ==
    /\ cfg.qps_limit = 1
    /\ TotalSends >= 2
    /\ now >= 1
    /\ obs.winStart >= 0 /\ obs.winSends >= 1
    /\ stats.msgs_sent + stats.msgs_send_failures >= 2
    /\ tokens = 0
    /\ \E c \in Callers : ks[c].pc = "allow"

----------------------------------------------------------------------------
(* C11: of the notify calls that match the key of one live Request, only   *)
(* the first records statistics: it sets the Once and adds one to          *)
(* RequestStats.requests and to the responder's responses; a later         *)
(* matching notify changes neither the stored value nor any PeerStats or   *)
(* RequestStats field, and only msgs_recv grows.                           *)
SumResponses(s) == SumOver([p \in Peers |-> s.peers.peers[p].responses], Peers)

OnceChanged(r) == request'[r].once # request[r].once

C11_NotifyStep ==
    /\ stats'.msgs_recv = stats.msgs_recv + 1
    /\ \A r \in Callers : request[r].once # NoValue => request'[r] = request[r]
    /\ (\A r \in Callers : ~OnceChanged(r)) =>
          /\ stats'.peers = stats.peers
          /\ request' = request
    /\ \A r \in Callers : OnceChanged(r) =>
          /\ request[r].once = NoValue
          /\ \A q \in Callers \ {r} : ~OnceChanged(q)
          /\ stats'.peers.requests.requests = stats.peers.requests.requests + 1
          /\ SumResponses(stats') = SumResponses(stats) + 1
          /\ \A p \in Peers :
                NotifyBlock(fetch[r].key, p) =>
                    stats'.peers.peers[p].responses = stats.peers.peers[p].responses + 1
    /\ stats'.msgs_sent = stats.msgs_sent
    /\ stats'.msgs_send_failures = stats.msgs_send_failures
    /\ stats'.start = stats.start /\ stats'.done = stats.done

C11_FirstNotifyRecords ==
    [][(stats'.msgs_recv # stats.msgs_recv) => C11_NotifyStep]_vars

(* Two notify calls matched the key of one Request that is still live: the *)
(* Once was set once, one response and one request were recorded.          *)
C11_Witness ==
    \E r \in Callers :
        /\ Live(r)
        /\ request[r].once # NoValue
        /\ obs.sets[r] = 1 /\ obs.dups = 1
        /\ stats.msgs_recv = 2
        /\ stats.peers.requests.requests = 1
        /\ SumResponses(stats) = 1

----------------------------------------------------------------------------
(* C12: a WeakMap entry exists only while a fetch_X call that holds its    *)
(* Request has not returned: once every holder has returned (with a        *)
(* payload or with Cancelled) get(k) is absent, whatever the keep_sending  *)
(* tasks of those calls are still doing; a response that arrives then      *)
(* finds no entry and changes no Request and no statistics but msgs_recv.  *)
Holders(r) == {c \in Callers : fetch[c].pc = "waiting" /\ fetch[c].req = r}

C12_EntryHasHolder ==
    \A kind \in Kinds, key \in Hashes :
        WeakGet(kind, key) # NoReq =>
            /\ Holders(WeakGet(kind, key)) # {}
            /\ \A c \in Holders(WeakGet(kind, key)) :
                  fetch[c].kind = kind /\ fetch[c].key = key

C12_LateResponseStep ==
    (stats'.msgs_recv # stats.msgs_recv) =>
        /\ \A r \in Callers : Holders(r) = {} => request'[r] = request[r]
        /\ (\A r \in Callers : Holders(r) = {}) => stats'.peers = stats.peers

C12_EntryVanishes == []C12_EntryHasHolder /\ [][C12_LateResponseStep]_vars

(* A fetch_block has returned Cancelled while the ack of a send of its     *)
(* keep_sending is still outstanding; the entry of its key is gone, and a  *)
(* Block message was received without a Request being resolved.            *)
C12_Witness ==
    \E c \in Callers :
        /\ Returned(c) /\ fetch[c].result = Cancelled
        /\ ks[c].pc = "send"
        /\ fetch[c].req = c
        /\ WeakGet(fetch[c].kind, fetch[c].key) = NoReq
        /\ request[c].once = NoValue
        /\ \A d \in Callers \ {c} : fetch[d].pc = "idle"
        /\ stats.msgs_recv = 2
        /\ data.info_.id = 1
        /\ stats.peers.requests.requests = 0

----------------------------------------------------------------------------
(* C13: each WeakMap holds at most one live Request per key.  The calls    *)
(* that wait on the same kind and key hold the same Request, it is the one *)
(* the map returns, and its strong count is the number of its holders;     *)
(* get_or_insert returns the live Request when there is one, and makes a   *)
(* new Request (one factory call) only when there is none.                 *)
C13_OneLivePerKey ==
    /\ \A c, d \in Callers :
          (/\ fetch[c].pc = "waiting" /\ fetch[d].pc = "waiting"
           /\ fetch[c].kind = fetch[d].kind /\ fetch[c].key = fetch[d].key)
              => fetch[c].req = fetch[d].req
    /\ \A c \in Callers :
          fetch[c].pc = "waiting" =>
              /\ WeakGet(fetch[c].kind, fetch[c].key) = fetch[c].req
              /\ request[fetch[c].req].strong >= 1
    /\ \A r \in Callers : request[r].strong = Cardinality(Holders(r))

C13_GetOrInsertStep(c) ==
    (fetch[c].pc = "idle" /\ fetch'[c].pc = "waiting") =>
        LET live == WeakGet(fetch'[c].kind, fetch'[c].key) IN
        IF live # NoReq
        THEN /\ fetch'[c].req = live
             /\ request'[live].once = request[live].once
             /\ request'[live].send_times = request[live].send_times
             /\ request'[live].strong = request[live].strong + 1
        ELSE /\ Holders(fetch'[c].req) = {}
             /\ request[fetch'[c].req] = RequestNew
             /\ request'[fetch'[c].req].strong = 1
             /\ \A r \in Callers \ {fetch'[c].req} : request'[r] = request[r]

C13_AtMostOneLive ==
    []C13_OneLivePerKey /\ [][\A c \in Callers : C13_GetOrInsertStep(c)]_vars

(* A Request of a key was dropped with the return of its only holder, and  *)
(* a later call for the same key waits on a new Request of its own.        *)
C13_Witness ==
    \E c, d \in Callers :
        /\ c # d
        /\ Returned(c) /\ fetch[c].req = c /\ request[c].strong = 0
        /\ fetch[d].pc = "waiting"
        /\ fetch[d].kind = fetch[c].kind /\ fetch[d].key = fetch[c].key
        /\ fetch[d].req = d /\ request[d].strong = 1
        /\ request[c].once # NoValue /\ request[d].once = NoValue

----------------------------------------------------------------------------
(* C14: every request a fetch_chunk hands to the transport is a            *)
(* PartialEncodedChunkRequest whose target is the peer the loop took from  *)
(* the snapshot and registered, whose chunk_hash is the key of the call,   *)
(* whose part_ords is 0, 1, ..., parts_per_chunk - 1 and whose             *)
(* tracking_shards is empty.                                               *)
C14_ChunkRequestShape ==
    \A c \in Callers :
        (fetch[c].kind = "chunk" /\ ks[c].inflight # NoRequest) =>
            LET m == ks[c].inflight IN
            /\ m.type = "PartialEncodedChunkRequest"
            /\ m.target \in ks[c].snap.connected_peers
            /\ m.target \in get_peers(request[fetch[c].req].send_times)
            /\ \A i \in DOMAIN ks[c].peers : ks[c].peers[i] # m.target
            /\ m.chunk_hash = fetch[c].key
            /\ Len(m.part_ords) = cfg.parts_per_chunk
            /\ \A i \in 1..Len(m.part_ords) : m.part_ords[i] = i - 1
            /\ m.tracking_shards = {}

(* With parts_per_chunk = 2, two fetch_chunk calls of different chunks     *)
(* each have a request in flight, to different peers.                      *)
C14_Witness ==
    /\ cfg.parts_per_chunk = 2
    /\ \E c, d \in Callers :
          /\ fetch[c].kind = "chunk" /\ fetch[d].kind = "chunk"
          /\ fetch[c].key # fetch[d].key
          /\ ks[c].inflight # NoRequest /\ ks[d].inflight # NoRequest
          /\ ks[c].inflight.target # ks[d].inflight.target
          /\ ks[c].inflight.part_ords = <<0, 1>>

----------------------------------------------------------------------------
(* C15 as stated: a notify(NetworkInfo) whose snapshot has at least        *)
(* min_peers connected peers completes normally (the lock of NetworkData   *)
(* is released unpoisoned), leaves info_futures empty and delivers the     *)
(* snapshot to every queued waiter that is still suspended, also when a    *)
(* sender whose waiter was cancelled is in the queue.                      *)
InQueue(c) == \E i \in DOMAIN data.info_futures : data.info_futures[i] = c

C15_NotifyInfoStep ==
    (/\ stats'.msgs_recv # stats.msgs_recv
     /\ ~data.poisoned
     /\ data'.info_ # data.info_
     /\ InfoReady(data'.info_)) =>
        /\ ~data'.poisoned
        /\ data'.info_futures = <<>>
        /\ \A c \in Callers :
              (InQueue(c) /\ Suspended(c)) => rx'[c] = RxValue(data'.info_)

C15_NotifyDeliversToAll == [][C15_NotifyInfoStep]_vars

----------------------------------------------------------------------------
(* C16 as stated: a sender is in info_futures only while the installed     *)
(* snapshot has fewer than min_peers connected peers; the first            *)
(* notify(NetworkInfo) with at least min_peers delivers to all queued      *)
(* senders and empties the queue; one with fewer installs its snapshot and *)
(* leaves the queue unchanged.                                             *)
C16_QueueOnlyBelowMin ==
    data.info_futures # <<>> => ~InfoReady(data.info_)

C16_NotifyInfoStep ==
    (stats'.msgs_recv # stats.msgs_recv /\ data'.info_ # data.info_) =>
        IF InfoReady(data'.info_)
        THEN /\ data'.info_futures = <<>>
             /\ \A c \in Callers :
                   (InQueue(c) /\ rx[c] = RxEmpty) => rx'[c].st = "value"
        ELSE /\ data'.info_futures = data.info_futures
             /\ rx' = rx

C16_QueueInvariant == []C16_QueueOnlyBelowMin /\ [][C16_NotifyInfoStep]_vars

----------------------------------------------------------------------------
(* C17: a RouteNotFound ack adds one to msgs_send_failures, leaves         *)
(* msgs_sent alone and takes the loop to the next peer of the cycle (or to *)
(* the next info() when the cycle is over) with no request_timeout wait    *)
(* and without ending the loop.  So with peer 1 always answering           *)
(* RouteNotFound and peer 2 NoResponse, both connected, a pending fetch    *)
(* has a send to peer 2 eventually (unless it is resolved before), and it  *)
(* returns the payload once a response has resolved it.                    *)
C17_RouteNotFoundStep(c) ==
    (/\ stats'.msgs_send_failures # stats.msgs_send_failures
     /\ ks'[c] # ks[c]) =>
        /\ ks[c].pc = "send" /\ ks[c].inflight.peer_id = 1
        /\ stats'.msgs_send_failures = stats.msgs_send_failures + 1
        /\ stats'.msgs_sent = stats.msgs_sent
        /\ ks'[c].pc = (IF ks[c].peers = <<>> THEN "info" ELSE "allow")
        /\ ks'[c].peers = ks[c].peers
        /\ ks'[c].res = "none"
        /\ ks'[c].deadline = ks[c].deadline
        /\ now' = now

SentTo(c, p) ==
    fetch[c].req # NoReq /\ p \in get_peers(request[fetch[c].req].send_times)

Resolved(c) == fetch[c].req # NoReq /\ request[fetch[c].req].once # NoValue

C17_RouteNotFoundNextPeer ==
    /\ [][\A c \in Callers : C17_RouteNotFoundStep(c)]_vars
    /\ \A c \in Callers :
          /\ (Pending(c) /\ data.info_.connected_peers = Peers)
                ~> (Returned(c) \/ Resolved(c) \/ SentTo(c, 2))
          /\ (Pending(c) /\ Resolved(c)) ~> ReturnedPayload(c)

(* Peer 1 was sent to first and answered RouteNotFound, peer 2 was sent to *)
(* afterwards and answered with the block: the fetch returned it, one      *)
(* response is recorded for peer 2 and none for peer 1.                    *)
C17_Witness ==
    \E c \in Callers :
        /\ ReturnedPayload(c)
        /\ stats.msgs_send_failures >= 1 /\ stats.msgs_sent >= 1
        /\ SentTo(c, 1) /\ SentTo(c, 2)
        /\ stats.peers.peers[1].responses = 0 /\ stats.peers.peers[1].requests = 1
        /\ stats.peers.peers[2].responses = 1 /\ stats.peers.peers[2].requests = 1
        /\ obs.suspicious[2] = 0

----------------------------------------------------------------------------
(* C18: a NoResponse ack adds one to msgs_sent, leaves msgs_send_failures  *)
(* alone and starts the request_timeout wait of the loop (10 s, i.e.       *)
(* 10 * qps_limit periods); the loop leaves that wait only when the time   *)
(* has elapsed or, ending with Cancelled, when its ctx is cancelled, and   *)
(* it sends only from rate_limiter.allow, never out of the wait.           *)
C18_LoopStep(c) ==
    /\ (stats'.msgs_sent # stats.msgs_sent /\ ks'[c] # ks[c]) =>
          /\ ks[c].pc = "send"
          /\ stats'.msgs_sent = stats.msgs_sent + 1
          /\ stats'.msgs_send_failures = stats.msgs_send_failures
          /\ ks'[c].pc = "wait"
          /\ ks'[c].deadline = now + RequestTimeoutSecs * cfg.qps_limit
          /\ ks'[c].sent = ks[c].sent
    /\ (ks[c].pc = "wait" /\ ks'[c].pc = "wait") => ks'[c] = ks[c]
    /\ (ks[c].pc = "wait" /\ ks'[c].pc # "wait") =>
          \/ now >= ks[c].deadline /\ ks'[c].pc \in {"allow", "info"}
          \/ ScopeCtxDone(c) /\ ks'[c].pc = "done" /\ ks'[c].res = "Cancelled"
    /\ (ks'[c].sent # ks[c].sent) =>
          ks[c].pc = "allow" /\ ks'[c].sent = ks[c].sent + 1

C18_NoResponseWaits == [][\A c \in Callers : C18_LoopStep(c)]_vars

(* A loop sent to peer 2, got NoResponse, waited for the request_timeout   *)
(* and has then sent its second request, to peer 1.                        *)
C18_Witness ==
    \E c \in Callers :
        /\ ks[c].sent = 2
        /\ ks[c].pc = "send" /\ ks[c].inflight.peer_id = 1
        /\ stats.msgs_sent = 1 /\ stats.msgs_send_failures = 0
        /\ now >= TimeoutTicks
        /\ request[fetch[c].req].send_times.times[2] = 0

----------------------------------------------------------------------------
(* C19: for every Request r and peer p, send_times.times has an entry for  *)
(* p exactly when a send to p was registered for r; the entry is the time  *)
(* of the first register(p) and no later register, by the same or another  *)
(* keep_sending loop of r, changes it; sends grows by exactly one with     *)
(* every register and never shrinks, so it is the number of sends of all   *)
(* loops of r.                                                             *)
LoopsOf(r) == {c \in Callers : fetch[c].req = r}

C19_SendTimesState ==
    \A r \in Callers :
        LET st == request[r].send_times IN
        /\ st.sends = SumOver([c \in Callers |-> ks[c].sent], LoopsOf(r))
        /\ (st.sends = 0) <=> (DOMAIN st.times = {})
        /\ Cardinality(DOMAIN st.times) <= st.sends
        /\ \A p \in DOMAIN st.times : st.times[p] >= 0 /\ st.times[p] <= now

C19_RegisterStep(r) ==
    LET st == request[r].send_times
        st2 == request'[r].send_times
    IN
    /\ st2.sends >= st.sends
    /\ \A p \in DOMAIN st.times : p \in DOMAIN st2.times /\ st2.times[p] = st.times[p]
    /\ (st2 # st) =>
          /\ st2.sends = st.sends + 1
          /\ \E c \in LoopsOf(r) :
                /\ ks[c].pc = "allow" /\ ks'[c].pc = "send"
                /\ LET p == ks'[c].inflight.peer_id IN
                      /\ p = Head(ks[c].peers)
                      /\ DOMAIN st2.times = DOMAIN st.times \cup {p}
                      /\ p \notin DOMAIN st.times => st2.times[p] = now
    /\ (st2 = st) => \A c \in LoopsOf(r) : ks'[c].sent = ks[c].sent

C19_SendTimesFirstWins ==
    []C19_SendTimesState /\ [][\A r \in Callers : C19_RegisterStep(r)]_vars

(* Two loops of one Request have sent to the same peer at different times: *)
(* the entry of the peer is still the time of the first send, and sends    *)
(* counts both.                                                            *)
C19_Witness ==
    \E c, d \in Callers :
        /\ c # d
        /\ fetch[c].req = fetch[d].req /\ fetch[c].req # NoReq
        /\ ks[c].sent = 1 /\ ks[d].sent = 1
        /\ ks[d].pc = "send"
        /\ LET st == request[fetch[c].req].send_times
               p == ks[d].inflight.peer_id
           IN /\ st.sends = 2
              /\ DOMAIN st.times = {p}
              /\ st.times[p] = 0
              /\ now >= 1 /\ obs.lastSend = now

----------------------------------------------------------------------------
(* C20: for every peer p, peers[p].responses is at most peers[p].requests  *)
(* plus the number of suspicious responses from p (first responses to a    *)
(* Request for which no send to p was registered).                         *)
C20_ResponsesBounded ==
    \A p \in Peers :
        stats.peers.peers[p].responses
            <= stats.peers.peers[p].requests + obs.suspicious[p]

(* A Request was sent to both peers and one of them answered: that peer    *)
(* has one response and one request, the other one request and no          *)
(* response, and no response was suspicious.                               *)
C20_Witness ==
    \E p, q \in Peers :
        /\ p # q
        /\ stats.peers.peers[p].responses = 1 /\ stats.peers.peers[p].requests = 1
        /\ stats.peers.peers[q].responses = 0 /\ stats.peers.peers[q].requests = 1
        /\ obs.suspicious[p] = 0 /\ obs.suspicious[q] = 0

----------------------------------------------------------------------------
(* C21: when the first response to a Request comes from a peer to which no *)
(* send was registered for it (also before any send at all), the notify    *)
(* completes, the responder's responses grows by one and its total_latency *)
(* stays; the total_latency of a peer changes only with a response of that *)
(* peer to a Request that has a registered send to it, by the time since   *)
(* that send.                                                              *)
C21_ResponseStep(r, p) ==
    (OnceChanged(r) /\ NotifyBlock(fetch[r].key, p)) =>
        LET st == request[r].send_times
            old == stats.peers.peers
            new == stats'.peers.peers
        IN
        /\ new[p].responses = old[p].responses + 1
        /\ p \notin DOMAIN st.times => new[p].total_latency = old[p].total_latency
        /\ p \in DOMAIN st.times =>
              new[p].total_latency = old[p].total_latency + (now - st.times[p])
        /\ \A q \in Peers \ {p} :
              /\ new[q].total_latency = old[q].total_latency
              /\ new[q].responses = old[q].responses

----------------------------------------------------------------------------
(* The lock-level scenario: two keep_sending tasks and two notify threads  *)
(* run through the Mutex operations of their functions in any interleaving.*)
InitLocks ==
    InitCfg([min_peers : {MaxMinPeers}, qps_limit : {MaxQps},
             parts_per_chunk : {PartsPerChunk}])

NextLocks ==
    \E t \in Threads :
        \/ LockStart(t)
        \/ LockAcquire(t)
        \/ LockRelease(t)
        \/ LockResume(t)

SpecLocks == InitLocks /\ [][NextLocks]_vars

(* Lock vocabulary of the claims.                                          *)
Suspension(t) == locks.prog[t] # <<>> /\ Head(locks.prog[t]).op = "await"
BlockedOn(t) ==
    IF locks.prog[t] # <<>> /\ Head(locks.prog[t]).op = "lock"
          /\ locks.owner[Head(locks.prog[t]).m] # NoThread
    THEN locks.owner[Head(locks.prog[t]).m]
    ELSE NoThread

RECURSIVE WaitChainEnds(_, _)
WaitChainEnds(t, n) ==
    IF BlockedOn(t) = NoThread THEN TRUE
    ELSE IF n = 0 THEN FALSE
    ELSE WaitChainEnds(BlockedOn(t), n - 1)

RECURSIVE AcquiredAfter(_, _)
AcquiredAfter(S, n) ==
    IF n = 0 THEN S
    ELSE AcquiredAfter(S \cup {e[2] : e \in {f \in locks.order : f[1] \in S}}, n - 1)

OrderAcyclic ==
    \A m \in Mutexes :
        m \notin AcquiredAfter({e[2] : e \in {f \in locks.order : f[1] = m}},
                               Cardinality(Mutexes))

----------------------------------------------------------------------------
(* C22 as stated: while a thread holds the requests lock or the peers lock *)
(* it holds no other mutex.  The code locks SendTimes.times under both.    *)
C22_NeverNested ==
    \A t \in Threads :
        (HeldBy(t) \cap {RequestsMutex, PeersMutex} # {}) => Cardinality(HeldBy(t)) = 1

(* C22: the requests lock and the peers lock are never held together (the  *)
(* requests lock is released before the peers lock is taken), neither is   *)
(* held together with NetworkData or at a suspension point, and the only   *)
(* mutex acquired while one of them is held is the SendTimes.times of the  *)
(* request, which is released again before the stats lock is.              *)
C22_LockState ==
    \A t \in Threads :
        (HeldBy(t) \cap {RequestsMutex, PeersMutex} # {}) =>
            /\ ~(RequestsMutex \in HeldBy(t) /\ PeersMutex \in HeldBy(t))
            /\ DataMutex \notin HeldBy(t)
            /\ Cardinality(HeldBy(t)) <= 2
            /\ ~Suspension(t)

C22_LockStep ==
    \A t \in Threads :
        /\ (LockAcquire(t) /\ HeldBy(t) \cap {RequestsMutex, PeersMutex} # {}) =>
               \E r \in Callers : Head(locks.prog[t]).m = TimesMutex(r)
        /\ (LockRelease(t) /\ Head(locks.prog[t]).m \in {RequestsMutex, PeersMutex}) =>
               HeldBy(t) = {Head(locks.prog[t]).m}

C22_StatsLocksNestTimesOnly ==
    /\ [](C22_LockState)
    /\ [][C22_LockStep]_vars

(* A notify thread holds the peers lock and the times lock of request 1    *)
(* while the other holds the requests lock.                                *)
C22_Witness ==
    /\ HeldBy(3) = {PeersMutex, TimesMutex(1)}
    /\ HeldBy(4) = {RequestsMutex}
    /\ <<RequestsMutex, TimesMutex(1)>> \in locks.order

----------------------------------------------------------------------------
(* C29: in every interleaving of notify threads and keep_sending tasks     *)
(* (info and register included) the order in which a mutex is acquired     *)
(* while another is held is acyclic, no task is at a suspension point      *)
(* while it holds a mutex, and every thread blocked in lock() waits,       *)
(* through the owners, for a thread that is not blocked.                   *)
C29_NoDeadlock ==
    /\ OrderAcyclic
    /\ \A t \in Threads : Suspension(t) => HeldBy(t) = {}
    /\ \A t \in Threads : WaitChainEnds(t, Cardinality(Threads))

(* Contention on all sides: notify thread 3 holds peers and waits for the  *)
(* times lock of request 1, which task 1 holds in register; thread 4 waits *)
(* for peers; task 2 is suspended in info(); both nestings were seen.      *)
C29_Witness ==
    /\ BlockedOn(3) = 1
    /\ BlockedOn(4) = 3
    /\ HeldBy(1) = {TimesMutex(1)}
    /\ Suspension(2)
    /\ locks.order = {<<RequestsMutex, TimesMutex(1)>>, <<PeersMutex, TimesMutex(1)>>,
                      <<RequestsMutex, TimesMutex(2)>>, <<PeersMutex, TimesMutex(2)>>}

----------------------------------------------------------------------------
(* C23: every notify call adds exactly one to msgs_recv; a notify with a   *)
(* message of another kind, with an empty header batch, or with a key that *)
(* has no live Request changes nothing else: no Once, no PeerStats, no     *)
(* RequestStats, no snapshot, no waiter queue, no fetch and no task.       *)
C23_NoEffectNotify ==
    \/ NotifyOther
    \/ \E p \in Peers : NotifyBlockHeaders(<<>>, p)
    \/ \E h \in Hashes, p \in Peers :
          WeakGet("block", h) = NoReq /\ NotifyBlock(h, p)
    \/ \E b \in HeaderBatches \ {<<>>}, p \in Peers :
          /\ WeakGet("header", b[MinByHeight(b)].prev_hash) = NoReq
          /\ NotifyBlockHeaders(b, p)
    \/ \E h \in Hashes, parts \in 1..2, p \in Peers :
          WeakGet("chunk", h) = NoReq /\ NotifyChunk(h, parts, p)

C23_Frame ==
    /\ stats' = [stats EXCEPT !.msgs_recv = @ + 1]
    /\ UNCHANGED <<cfg, locks, now, tokens, data, rx, weakmap, request, fetch, ctx, ks>>
    /\ obs'.sets = obs.sets
    /\ obs'.suspicious = obs.suspicious

C23_NotifyStep ==
    (stats'.msgs_recv # stats.msgs_recv) =>
        /\ stats'.msgs_recv = stats.msgs_recv + 1
        /\ C23_NoEffectNotify => C23_Frame

C23_NotifyCountsAndIgnores == [][C23_NotifyStep]_vars

(* Two notify calls were counted while a fetch waits, and none of them     *)
(* reached a Request: no Once was set or tried, no statistics recorded.    *)
C23_Witness ==
    /\ stats.msgs_recv = MaxRecv
    /\ obs.dups = 0
    /\ \A r \in Callers : obs.sets[r] = 0
    /\ stats.peers.requests.requests = 0
    /\ \E c \in Callers : Pending(c) /\ fetch[c].kind = "header"
                          /\ request[fetch[c].req].once = NoValue

----------------------------------------------------------------------------
(* C28: for each phase X of header, block and chunk, X_done <= X_start in  *)
(* every state; X_start counts the fetch_X calls made (one per call) and   *)
(* X_done counts the calls that returned a payload (one per such call): a  *)
(* call that ends with Cancelled is counted in X_start only.               *)
CallsOf(k) == {c \in Callers : fetch[c].pc # "idle" /\ fetch[c].kind = k}
PayloadsOf(k) == {c \in Callers : ReturnedPayload(c) /\ fetch[c].kind = k}

C28_DoneWithinStart ==
    \A k \in Kinds :
        /\ stats.done[k] <= stats.start[k]
        /\ stats.start[k] = Cardinality(CallsOf(k))
        /\ stats.done[k] = Cardinality(PayloadsOf(k))

(* Two fetch_block_headers calls: one returned the headers, the other      *)
(* Cancelled.                                                              *)
C28_Witness ==
    /\ stats.start["header"] = 2
    /\ stats.done["header"] = 1
    /\ \E c \in Callers : Returned(c) /\ fetch[c].result = Cancelled
    /\ \E c \in Callers : ReturnedPayload(c)

----------------------------------------------------------------------------
(* C27: info() enqueues its sender at the back of info_futures, and a      *)
(* notify(NetworkInfo) that drains the queue serves the senders from the   *)
(* front: a waiter has the snapshot delivered exactly when its receiver    *)
(* and the receivers of all waiters enqueued before it are still there.    *)
C27_EnqueueStep ==
    (data'.info_futures # data.info_futures /\ data'.info_futures # <<>>) =>
        \E c \in Callers :
            /\ ~InQueue(c)
            /\ data'.info_futures = Append(data.info_futures, c)

C27_DrainStep ==
    (/\ stats'.msgs_recv # stats.msgs_recv
     /\ ~data.poisoned
     /\ data'.info_ # data.info_
     /\ InfoReady(data'.info_)) =>
        LET q == data.info_futures IN
        \A j \in DOMAIN q :
            (rx'[q[j]] = RxValue(data'.info_)) <=>
                (\A i \in 1..j : ~ReceiverGone(q[i]))

C27_DrainIsFifo == [][C27_EnqueueStep /\ C27_DrainStep]_vars

(* The drain that met a dropped receiver delivered its snapshot to the     *)
(* waiter enqueued before it.                                              *)
C27_Witness ==
    /\ data.poisoned
    /\ \E c \in Callers : rx[c] = RxValue(data.info_)

----------------------------------------------------------------------------
(* C24: a fetch_X waiting on a resolved Once returns, whatever its         *)
(* keep_sending task is doing; once it has returned, the task issues no    *)
(* further send and eventually stops.                                      *)
C24_ReturnNotHeld ==
    \A c \in Callers :
        (Pending(c) /\ Resolved(c)) => ENABLED FetchReturn(c)

C24_NoSendAfterReturn ==
    \A c \in Callers :
        Returned(c) =>
            /\ ks'[c].sent = ks[c].sent
            /\ ks'[c].inflight \in {ks[c].inflight, NoRequest}
            /\ request'[fetch[c].req].send_times = request[fetch[c].req].send_times

----------------------------------------------------------------------------
(* C25 as stated: at each suspension point of keep_sending (in info(), in  *)
(* rate_limiter.allow, in the transport send, in the request_timeout wait) *)
(* the next step of a task whose ctx is cancelled is to end with           *)
(* Cancelled.  The code awaits the transport's answer without the ctx.     *)
C25_CancelStep(c) ==
    (/\ ScopeCtxDone(c)
     /\ ks[c].pc \in {"info_wait", "allow", "send", "wait"}
     /\ ks'[c] # ks[c]) =>
        /\ ks'[c].pc = "done"
        /\ ks'[c].res = "Cancelled"

C25_CancelAtEveryAwait == [][\A c \in Callers : C25_CancelStep(c)]_vars

----------------------------------------------------------------------------
(* C26: a keep_sending loop works on one snapshot per cycle: the peers     *)
(* still to be sent to are distinct connected_peers of that snapshot, a    *)
(* send goes to the next peer of the shuffled list and only when no send   *)
(* of the loop is unacknowledged, so each peer gets at most one send per   *)
(* cycle; the loop takes another snapshot only when the list is exhausted  *)
(* and the last send has been dealt with.                                  *)
RemainingPeers(c) == {ks[c].peers[i] : i \in DOMAIN ks[c].peers}

C26_CycleState(c) ==
    /\ Cardinality(RemainingPeers(c)) = Len(ks[c].peers)
    /\ RemainingPeers(c) \subseteq ks[c].snap.connected_peers
    /\ (ks[c].inflight # NoRequest) <=> (ks[c].pc = "send")
    /\ ks[c].inflight # NoRequest =>
          /\ ks[c].inflight.peer_id \in ks[c].snap.connected_peers
          /\ ks[c].inflight.peer_id \notin RemainingPeers(c)
    /\ ks[c].pc = "allow" => ks[c].peers # <<>>

C26_CycleStep(c) ==
    /\ ks'[c].sent # ks[c].sent =>
          /\ ks'[c].sent = ks[c].sent + 1
          /\ ks[c].inflight = NoRequest
          /\ ks[c].peers # <<>>
          /\ ks'[c].inflight.peer_id = Head(ks[c].peers)
          /\ ks'[c].peers = Tail(ks[c].peers)
          /\ ks'[c].snap = ks[c].snap
    /\ (ks'[c].peers # ks[c].peers /\ ks'[c].sent = ks[c].sent) =>
          \/ ks'[c].pc = "done" /\ ks'[c].peers = <<>>
          \/ /\ ks[c].pc \in {"info", "info_wait"}
             /\ ks[c].peers = <<>>
             /\ ks[c].inflight = NoRequest
             /\ RemainingPeers(c)' = ks'[c].snap.connected_peers
    /\ ks'[c].snap # ks[c].snap =>
          /\ ks[c].pc \in {"info", "info_wait"}
          /\ ks[c].peers = <<>>
          /\ ks[c].inflight = NoRequest
    /\ (ks[c].pc \in {"allow", "send", "wait"} /\ ks'[c].pc \in {"info", "info_wait"}) =>
          ks[c].peers = <<>>

C26_OneSnapshotPerCycle ==
    /\ [](\A c \in Callers : C26_CycleState(c))
    /\ [][\A c \in Callers : C26_CycleStep(c)]_vars

(* A loop in its second cycle: after one send to each of the two peers it  *)
(* took the next snapshot and has sent to the first peer of the new list.  *)
C26_Witness ==
    \E c \in Callers :
        /\ ks[c].sent = 3
        /\ ks[c].pc = "send"
        /\ ks[c].snap.id = 2
        /\ Len(ks[c].peers) = 1
        /\ request[fetch[c].req].send_times.sends = 3

====
